---- MODULE Spec2Model ----
(***************************************************************************)
(* K-Auth integration examples as state machines: the backend-to-backend   *)
(* Express server (routes /, /login, /callback, /refresh, /logout; Spec,   *)
(* FairSpec) and the single-page application (init, login,                 *)
(* exchangeCodeForToken, the logout click; SpaSpec).  ProgramsSpec is a    *)
(* run of either program.                                                  *)
(*                                                                         *)
(* One browser session is modelled.  Node runs one handler at a time and   *)
(* a handler gives up control only at `await fetch(...)`, so every action  *)
(* below is one synchronous segment of a handler: from the arrival of a    *)
(* request to its first await (or its response), and from the settlement   *)
(* of the awaited provider call to the response.  Several requests of the  *)
(* same session may be waiting for the provider at the same time.          *)
(* A response stays in `res` until it is flushed (End); nothing else runs  *)
(* in between, as nothing does between res.send() and the handler's end.   *)
(***************************************************************************)
EXTENDS Integers, Sequences, FiniteSets, Bags, TLC

(* ------------------------------ bounds --------------------------------- *)
\* GET /login requests in one run (each draws a fresh verifier and state).
MaxLogins == 2
\* Requests of the session that may wait for the provider at the same time.
MaxInFlight == 2
\* Async calls of the single-page application suspended at the same time.
MaxSuspended == 2

(* ----------------------------- constants ------------------------------- *)
KAUTH_FRONTEND_URL == "https://kauth.dev.local/auth/authorize"
KAUTH_BACKEND_URL == "https://api-kauth.dev.local/auth/token"
KAUTH_REFRESH_URL == "https://api-kauth.dev.local/auth/refresh"
KAUTH_REVOKE_URL == "https://api-kauth.dev.local/auth/logout"
KAUTH_LOGOUT_URL == "https://kauth.dev.local/logout"
\* The single-page application's constants of the same names.
SPA_KAUTH_FRONTEND_URL == "https://kauth.ripbr.com.br/auth/authorize"
SPA_KAUTH_BACKEND_URL == "https://api-kauth.ripbr.com.br/auth/token"
SPA_KAUTH_LOGOUT_URL == "https://kauth.ripbr.com.br/logout"

(* ------------------------------ values --------------------------------- *)
\* JavaScript `undefined` for a string-valued slot (an absent query
\* parameter, an absent session field, an absent object property).
Undefined == "undefined"
\* JavaScript `undefined` for the token-set slot (req.session.tokens,
\* data.data): token sets are records, so their "absent" is the empty one.
NoTokens == <<>>

\* if (v) ... for a string-valued slot: undefined and "" are falsy.
Truthy(v) == v \notin {Undefined, ""}

\* obj.f of a token set: undefined when the property is absent.
Get(obj, f) == IF f \in DOMAIN obj THEN obj[f] ELSE Undefined

(* ----------------------------- encodings ------------------------------ *)
\* The i-th character of a string.
Char(s, i) == SubSeq(s, i, i)

\* dec.toString(16) of a byte
HexDigits == "0123456789abcdef"
toString16(dec) ==
  IF dec < 16 THEN Char(HexDigits, dec + 1)
  ELSE Char(HexDigits, (dec \div 16) + 1) \o Char(HexDigits, (dec % 16) + 1)

\* s.padStart(n, fill)
RECURSIVE padStart(_, _, _)
padStart(s, n, fill) == IF Len(s) >= n THEN s ELSE padStart(fill \o s, n, fill)

\* strings.join("")
RECURSIVE join(_)
join(strings) ==
  IF strings = <<>> THEN "" ELSE Head(strings) \o join(Tail(strings))

\* s.replace(/a/g, b) for a one-character pattern
RECURSIVE replace(_, _, _)
replace(s, a, b) ==
  IF s = "" THEN ""
  ELSE (IF Head(s) = a THEN b ELSE Head(s)) \o replace(Tail(s), a, b)

\* RFC 4648 base64 of a byte sequence over an alphabet, with `pad` for the
\* positions the last group leaves empty.
Base64Alphabet ==
  "ABCDEFGHIJKLMNOPQRSTUVWXYZabcdefghijklmnopqrstuvwxyz0123456789+/"
Base64UrlAlphabet ==
  "ABCDEFGHIJKLMNOPQRSTUVWXYZabcdefghijklmnopqrstuvwxyz0123456789-_"
RECURSIVE Base64(_, _, _)
Base64(bytes, alphabet, pad) ==
  IF bytes = <<>> THEN ""
  ELSE LET n == Len(bytes)
           b1 == bytes[1]
           b2 == IF n >= 2 THEN bytes[2] ELSE 0
           b3 == IF n >= 3 THEN bytes[3] ELSE 0
       IN Char(alphabet, (b1 \div 4) + 1)
          \o Char(alphabet, (b1 % 4) * 16 + (b2 \div 16) + 1)
          \o (IF n >= 2
              THEN Char(alphabet, (b2 % 16) * 4 + (b3 \div 64) + 1)
              ELSE pad)
          \o (IF n >= 3 THEN Char(alphabet, (b3 % 64) + 1) ELSE pad)
          \o (IF n > 3 THEN Base64(SubSeq(bytes, 4, n), alphabet, pad)
              ELSE "")

\* btoa(String.fromCharCode(...bytes)): standard alphabet, "=" padding.
btoa(bytes) == Base64(bytes, Base64Alphabet, "=")
\* hash.digest("base64url") of Node: URL alphabet, no padding.
digestBase64Url(bytes) == Base64(bytes, Base64UrlAlphabet, "")

\* SHA-256 is not computed: SHA256(v) is a fixed function from the strings
\* of the model to digests of DigestBytes bytes, the same for both programs;
\* its digests run through bytes whose base64 has "+", "/" and padding.
DigestBytes == 32
VerifierAlphabet == "0123456789abcdefv"
CharCode(c) ==
  CHOOSE i \in 1..Len(VerifierAlphabet) : Char(VerifierAlphabet, i) = c
RECURSIVE Mix(_, _)
Mix(s, h) ==
  IF s = "" THEN h ELSE Mix(Tail(s), (h * 31 + CharCode(Head(s))) % 65521)
SHA256(v) ==
  [k \in 1..DigestBytes |-> (Mix(v, 7) * (2 * k + 1) + 7 * k * k) % 256]

\* crypto.randomBytes(32).toString("base64url") of the n-th login: a fresh
\* value (random 256-bit values do not repeat within a run).
Verifier(n) == "v" \o ToString(n)
\* crypto.randomBytes(16).toString("hex") of the n-th login: a fresh value.
StateToken(n) == "s" \o ToString(n)
\* crypto.createHash("sha256").update(codeVerifier).digest("base64url")
CodeChallenge(v) == digestBase64Url(SHA256(v))

\* Token sets the provider may return in `data`: with and without a
\* refresh token, with and without further fields.
TokenSets ==
  { [accessToken |-> "at1", refreshToken |-> "rt1"],
    [accessToken |-> "at2", refreshToken |-> "rt2", expiresIn |-> "3600"],
    [accessToken |-> "at3"] }

\* Settlements of one `await fetch(...)`: the promise rejects (transport
\* failure, or the transport's own timeout), or it resolves to a response
\* with a status, a body that response.json() parses or not, and, in a
\* parsed body, the `data` property (NoTokens when the body has none).
Rejections ==
  { [settled |-> "rejected", why |-> w, ok |-> FALSE, status |-> 0,
     json |-> FALSE, data |-> NoTokens] : w \in {"network", "timeout"} }
OkResponses ==
  { [settled |-> "resolved", why |-> "", ok |-> TRUE, status |-> 200,
     json |-> TRUE, data |-> d] : d \in TokenSets \cup {NoTokens} }
  \cup
  { [settled |-> "resolved", why |-> "", ok |-> TRUE, status |-> 200,
     json |-> FALSE, data |-> NoTokens] }
ErrorResponses ==
  { [settled |-> "resolved", why |-> "", ok |-> FALSE, status |-> st,
     json |-> j, data |-> NoTokens] : st \in {400, 500}, j \in BOOLEAN }
Settlements == Rejections \cup OkResponses \cup ErrorResponses
NoResp ==
  [settled |-> "none", why |-> "", ok |-> FALSE, status |-> 0,
   json |-> FALSE, data |-> NoTokens]

\* req.query of GET /callback: each parameter absent or a string.
CallbackQueries ==
  [ code : {Undefined, "abc123"},
    state : {Undefined, "WRONG"} \cup { StateToken(n) : n \in 1..MaxLogins },
    error : {Undefined, "", "access_denied"} ]
NoQuery == [code |-> Undefined, state |-> Undefined, error |-> Undefined]

\* The body of a provider call under way (NoCall when there is none).
NoCall == [url |-> "", code |-> Undefined, codeVerifier |-> Undefined,
           refreshToken |-> Undefined]

(* ----------------------- single-page application ----------------------- *)
\* JavaScript `null`: what sessionStorage.getItem and URLSearchParams.get
\* return for a key that is not there.
Null == "null"

\* if (v) ... for a slot that holds null or a string.
Given(v) == v \notin {Null, ""}

\* function generateRandomString(length = 43)
VerifierLength == 43

\* Values of window.crypto.getRandomValues(array), an array of
\* VerifierLength bytes: bytes with one and with two hexadecimal digits.
Bytes == {0, 10, 16, 255}
RandomArrays ==
  { [k \in 1..VerifierLength |-> b] : b \in Bytes }
  \cup { [k \in 1..VerifierLength |-> IF k % 2 = 1 THEN 255 ELSE 10] }

\* Array.from(array, dec => ("0" + dec.toString(16)).padStart(2, "0"))
\*   .join("").substring(0, length)
generateRandomString(array) ==
  SubSeq(join([k \in 1..Len(array) |->
                 padStart("0" \o toString16(array[k]), 2, "0")]),
         1, Len(array))

\* Mutant: the "=" padding of btoa is left in.
generateCodeChallenge_KeepPadding(codeVerifier) ==
  replace(replace(btoa(SHA256(codeVerifier)), "+", "-"), "/", "_")

\* btoa(String.fromCharCode(...new Uint8Array(digest)))
\*   .replace(/\+/g, "-").replace(/\//g, "_").replace(/=/g, "")
generateCodeChallenge(codeVerifier) ==
  replace(replace(replace(btoa(SHA256(codeVerifier)), "+", "-"), "/", "_"),
          "=", "")

\* The two functions over the model's inputs, computed once: the verifier
\* of each random array, the challenge of each verifier.
RandomStrings ==
  [array \in RandomArrays |-> generateRandomString(array)]
CodeChallenges ==
  [codeVerifier \in {RandomStrings[array] : array \in RandomArrays} |->
     generateCodeChallenge(codeVerifier)]

\* JSON.stringify(value) as sessionStorage.setItem stores it: the JSON text
\* of a token set (its properties in insertion order), and the string
\* "undefined" for undefined.
TokenFields == <<"accessToken", "refreshToken", "expiresIn">>
RECURSIVE Members(_, _)
Members(value, fields) ==
  IF fields = <<>> THEN ""
  ELSE LET f == Head(fields)
           rest == Members(value, Tail(fields))
       IN IF f \notin DOMAIN value THEN rest
          ELSE "\"" \o f \o "\":\"" \o value[f] \o "\""
               \o (IF rest = "" THEN "" ELSE "," \o rest)
JSONstringify(value) ==
  IF value = NoTokens THEN "undefined"
  ELSE "{" \o Members(value, TokenFields) \o "}"
\* JSON.parse(text): the token set whose JSON text it is; it throws on a
\* text that is none ("undefined").
JSONparses(text) == \E value \in TokenSets : JSONstringify(value) = text
JSONparse(text) == CHOOSE value \in TokenSets : JSONstringify(value) = text

\* The query of the page's URL: URLSearchParams.get("code"), get("error").
SpaQueries ==
  [code : {Null, "abc123"}, error : {Null, "", "access_denied"}]

\* No assignment to window.location.href yet.
NoHref == [url |-> "", code_challenge |-> Null]

\* appDiv.innerHTML: which page it is and the token set it prints.
Page(kind, shown) == [kind |-> kind, shown |-> shown]
NoPage == Page("", NoTokens)

\* An async function suspended at an await, with its local constants.
Task(fn, code, codeVerifier) ==
  [fn |-> fn, code |-> code, codeVerifier |-> codeVerifier]

(* ------------------------------ state ---------------------------------- *)
VARIABLES
  session,   \* the server-side session of the browser (req.session)
  reqs,      \* bag of the requests under way: handler position and call
  req,       \* the request of the handler that is running (req.query)
  res,       \* the HTTP response the running handler has just produced
  nLogin     \* GET /login requests so far

\* The single-page application in one browser tab.
VARIABLES
  sessionStorage,  \* the items pkce_verifier and kauth_tokens
  location,        \* window.location: the URL's query, the href assigned
  appDiv,          \* the page shown
  tasks            \* bag of the async functions suspended at an await

serverVars == <<session, reqs, req, res, nLogin>>
spaVars == <<sessionStorage, location, appDiv, tasks>>
vars == <<session, reqs, req, res, nLogin,
          sessionStorage, location, appDiv, tasks>>

\* A session without data; `live` is whether the store holds the session.
NoSession ==
  [live |-> FALSE, codeVerifier |-> Undefined, state |-> Undefined,
   tokens |-> NoTokens]

NoLocation == [url |-> "", code_challenge |-> Undefined, state |-> Undefined]

\* No handler is running: the event loop is idle.
NoRequest == [route |-> "", query |-> NoQuery]

\* No response being sent.
NoAnswer ==
  [status |-> 0, kind |-> "", shown |-> NoTokens, location |-> NoLocation]

Init ==
  /\ session = NoSession
  /\ reqs = EmptyBag
  /\ req = NoRequest
  /\ res = NoAnswer
  /\ nLogin = 0
  /\ sessionStorage = [pkce_verifier |-> Null, kauth_tokens |-> Null]
  /\ location = [code |-> Null, error |-> Null, href |-> NoHref]
  /\ appDiv = NoPage
  /\ tasks = EmptyBag

(* --------------------------- session store ----------------------------- *)
\* express-session with saveUninitialized: true: a request of a browser
\* whose session the store does not hold gets a new, empty session, which
\* the store holds from then on; a handler's writes to req.session are
\* saved with its response.
\* Mutant: every request gets a new, empty session.
Load_Fresh(sess) == [NoSession EXCEPT !.live = TRUE]
Load(sess) == [sess EXCEPT !.live = TRUE]
Save(sess) == [sess EXCEPT !.live = TRUE]

(* --------------------------- code fragments ---------------------------- *)
\* Mutant: an error is only reported when no code came with it.
ProviderRejected_OnlyWithoutCode(q) == Truthy(q.error) /\ ~Truthy(q.code)

\* if (error)
ProviderRejected(q) == Truthy(q.error)

\* Mutant: the state is only compared when the callback carries one.
StateMismatch_OnlyWhenGiven(q, sess) ==
  q.state # Undefined /\ q.state # sess.state

\* if (state !== req.session.state)
StateMismatch(q, sess) == q.state # sess.state

\* Mutant: only the token set is looked for, not its refresh token.
HasRefreshToken_TokensOnly(sess) == sess.tokens # NoTokens

\* req.session.tokens?.refreshToken, the negation of
\* !req.session.tokens || !req.session.tokens.refreshToken
HasRefreshToken(sess) ==
  sess.tokens # NoTokens /\ Truthy(Get(sess.tokens, "refreshToken"))

\* Mutant: response.ok is not looked at.
TokenExchangeOutcome_NoOkCheck(resp) ==
  IF resp.settled = "rejected" THEN "throw"
  ELSE IF resp.json THEN "ok" ELSE "throw"

\* The path /callback takes after `await fetch(KAUTH_BACKEND_URL, ...)`:
\* a rejection, or a body response.json() cannot parse, throws into the
\* catch block; a response that is not ok is answered with its status.
TokenExchangeOutcome(resp) ==
  IF resp.settled = "rejected" THEN "throw"
  ELSE IF ~resp.ok THEN (IF resp.json THEN "http_error" ELSE "throw")
  ELSE IF resp.json THEN "ok" ELSE "throw"

\* Mutant: the verifier is discarded, the state is left behind.
StoreTokenSet_KeepState(sess, data) ==
  [sess EXCEPT !.tokens = data, !.codeVerifier = Undefined]

\* req.session.tokens = data.data; delete req.session.codeVerifier;
\* delete req.session.state
StoreTokenSet(sess, data) ==
  [sess EXCEPT !.tokens = data, !.codeVerifier = Undefined,
               !.state = Undefined]

\* Mutant: response.ok is not looked at.
RefreshOutcome_NoOkCheck(resp) ==
  IF resp.settled = "rejected" THEN "throw"
  ELSE IF resp.json THEN "ok" ELSE "throw"

\* The path /refresh takes after `await fetch(KAUTH_REFRESH_URL, ...)`.
RefreshOutcome(resp) ==
  IF resp.settled = "rejected" THEN "throw"
  ELSE IF ~resp.ok THEN (IF resp.json THEN "http_error" ELSE "throw")
  ELSE IF resp.json THEN "ok" ELSE "throw"

\* Mutant: the new token set is merged into the old one
\* (Object.assign(req.session.tokens, data.data)).
ReplaceTokenSet_Merge(sess, data) ==
  [sess EXCEPT !.tokens =
     [f \in DOMAIN sess.tokens \cup DOMAIN data |->
        IF f \in DOMAIN data THEN data[f] ELSE sess.tokens[f]]]

\* req.session.tokens = data.data
ReplaceTokenSet(sess, data) == [sess EXCEPT !.tokens = data]

\* Mutant: no try/catch around the revoke call, a rejection ends the handler.
RevokeOutcome_Uncaught(resp) ==
  IF resp.settled = "rejected" THEN "failed" ELSE "destroy"

\* The path /logout takes after `await fetch(KAUTH_REVOKE_URL, ...)`: the
\* response is not looked at, a rejection is caught and logged.
RevokeOutcome(resp) == "destroy"

\* Mutant: the session is not destroyed.
Destroy_Nothing(sess) == sess

\* req.session.destroy()
Destroy(sess) == NoSession

(* ------------------------------ requests ------------------------------- *)
\* A request under way: the handler's position, what it keeps of the query,
\* the provider call it made, and how that call settled ("pending" while
\* the handler waits, "none" when it made no call).
Pending(pc, query, call, settled) ==
  [pc |-> pc, query |-> query, call |-> call, settled |-> settled]

\* How a call settled: fulfilled with a response, or the rejection's cause.
Settled(resp) == IF resp.settled = "rejected" THEN resp.why ELSE "resolved"

\* What a /callback handler past its guards still reads of req.query:
\* `code` and `state`; `error` is falsy there (absent or "") and is not
\* read again.
Kept(q) == [code |-> q.code, state |-> q.state]
Add(rq) == reqs (+) SetToBag({rq})
\* Mutant: the settled call is issued again and the handler waits once more.
Remove_Reissue(rq) == reqs
Remove(rq) == reqs (-) SetToBag({rq})
Requests == BagToSet(reqs)

\* A handler is inside a synchronous segment: nothing else runs meanwhile.
Busy == req # NoRequest

CanArrive == ~Busy
CanWait == BagCardinality(reqs) < MaxInFlight

Request(route, query) == [route |-> route, query |-> query]

Answer(status, kind, shown, target) ==
  [status |-> status, kind |-> kind, shown |-> shown, location |-> target]

\* app.get("/")
Home ==
  /\ UNCHANGED spaVars
  /\ CanArrive
  /\ req' = Request("/", NoQuery)
  /\ session' = Load(session)
  /\ res' = Answer(200,
                   IF session.tokens # NoTokens THEN "home" ELSE "login_page",
                   session.tokens, NoLocation)
  /\ UNCHANGED <<reqs, nLogin>>

\* app.get("/login")
Login ==
  /\ UNCHANGED spaVars
  /\ CanArrive
  /\ nLogin < MaxLogins
  /\ req' = Request("/login", NoQuery)
  /\ nLogin' = nLogin + 1
  /\ LET codeVerifier == Verifier(nLogin + 1)
         state == StateToken(nLogin + 1)
     IN /\ session' = Save([Load(session) EXCEPT
                              !.codeVerifier = codeVerifier,
                              !.state = state])
        /\ res' = Answer(302, "authorize_redirect", NoTokens,
                         [url |-> KAUTH_FRONTEND_URL,
                          code_challenge |-> CodeChallenge(codeVerifier),
                          state |-> state])
  /\ UNCHANGED reqs

\* app.get("/callback"), up to the response or to `await fetch(...)`
Callback(q) ==
  /\ UNCHANGED spaVars
  /\ CanArrive
  /\ req' = Request("/callback", q)
  /\ session' = Load(session)
  /\ UNCHANGED nLogin
  /\ IF ProviderRejected(q)
     THEN /\ res' = Answer(400, "provider_error", NoTokens, NoLocation)
          /\ UNCHANGED reqs
     ELSE IF StateMismatch(q, session)
     THEN /\ res' = Answer(400, "state_invalid", NoTokens, NoLocation)
          /\ UNCHANGED reqs
     ELSE /\ CanWait
          /\ reqs' = Add(Pending("token", Kept(q),
                                 [url |-> KAUTH_BACKEND_URL,
                                  code |-> q.code,
                                  codeVerifier |-> session.codeVerifier,
                                  refreshToken |-> Undefined],
                                 "pending"))
          /\ UNCHANGED res

\* app.get("/callback"), from the settlement of the token call on
CallbackResume(rq, resp) ==
  /\ UNCHANGED spaVars
  /\ ~Busy
  /\ rq \in Requests
  /\ rq.pc = "token"
  /\ req' = Request("/callback", rq.query)
  /\ LET outcome == TokenExchangeOutcome(resp)
     IN /\ session' = IF outcome = "ok"
                      THEN Save(StoreTokenSet(session, resp.data))
                      ELSE session
        /\ res' =
             CASE outcome = "ok" ->
                    Answer(302, "authenticated", NoTokens,
                           [NoLocation EXCEPT !.url = "/"])
               [] outcome = "http_error" ->
                    Answer(resp.status, "token_error", NoTokens, NoLocation)
               [] OTHER ->
                    Answer(500, "internal_error", NoTokens, NoLocation)
  /\ reqs' = Remove(rq)
  /\ UNCHANGED nLogin

\* app.get("/refresh"), up to the response or to `await fetch(...)`
Refresh ==
  /\ UNCHANGED spaVars
  /\ CanArrive
  /\ req' = Request("/refresh", NoQuery)
  /\ session' = Load(session)
  /\ UNCHANGED nLogin
  /\ IF ~HasRefreshToken(session)
     THEN /\ res' = Answer(401, "no_refresh_token", NoTokens, NoLocation)
          /\ UNCHANGED reqs
     ELSE /\ CanWait
          /\ reqs' = Add(Pending("refresh", NoQuery,
                                 [url |-> KAUTH_REFRESH_URL,
                                  code |-> Undefined,
                                  codeVerifier |-> Undefined,
                                  refreshToken |->
                                    Get(session.tokens, "refreshToken")],
                                 "pending"))
          /\ UNCHANGED res

\* app.get("/refresh"), from the settlement of the refresh call on
RefreshResume(rq, resp) ==
  /\ UNCHANGED spaVars
  /\ ~Busy
  /\ rq \in Requests
  /\ rq.pc = "refresh"
  /\ req' = Request("/refresh", NoQuery)
  /\ LET outcome == RefreshOutcome(resp)
     IN /\ session' = IF outcome = "ok"
                      THEN Save(ReplaceTokenSet(session, resp.data))
                      ELSE session
        /\ res' =
             CASE outcome = "ok" ->
                    Answer(200, "refresh_ok", resp.data, NoLocation)
               [] outcome = "http_error" ->
                    Answer(resp.status, "refresh_error", NoTokens, NoLocation)
               [] OTHER ->
                    Answer(500, "internal_error", NoTokens, NoLocation)
  /\ reqs' = Remove(rq)
  /\ UNCHANGED nLogin

\* app.get("/logout"), up to `await fetch(KAUTH_REVOKE_URL, ...)`, or, when
\* the session holds no refresh token, up to req.session.destroy()
Logout ==
  /\ UNCHANGED spaVars
  /\ CanArrive
  /\ CanWait
  /\ req' = Request("/logout", NoQuery)
  /\ session' = Load(session)
  /\ reqs' = IF HasRefreshToken(session)
             THEN Add(Pending("revoke", NoQuery,
                              [url |-> KAUTH_REVOKE_URL, code |-> Undefined,
                               codeVerifier |-> Undefined,
                               refreshToken |->
                                 Get(session.tokens, "refreshToken")],
                              "pending"))
             ELSE Add(Pending("destroy", NoQuery, NoCall, "none"))
  /\ UNCHANGED <<res, nLogin>>

\* app.get("/logout"): the revoke call settles
LogoutResume(rq, resp) ==
  /\ UNCHANGED spaVars
  /\ ~Busy
  /\ rq \in Requests
  /\ rq.pc = "revoke"
  /\ req' = Request("/logout", NoQuery)
  /\ reqs' = Remove(rq) (+)
              SetToBag({Pending(RevokeOutcome(resp), NoQuery, rq.call,
                                Settled(resp))})
  /\ UNCHANGED <<session, res, nLogin>>

\* app.get("/logout"): req.session.destroy()
LogoutDestroy(rq) ==
  /\ UNCHANGED spaVars
  /\ rq \in Requests
  /\ rq.pc = "destroy"
  /\ session' = Destroy(session)
  /\ reqs' = Remove(rq) (+)
              SetToBag({Pending("redirect", NoQuery, rq.call, rq.settled)})
  /\ UNCHANGED <<req, res, nLogin>>

\* app.get("/logout"): res.redirect(KAUTH_LOGOUT_URL + ...)
LogoutRedirect(rq) ==
  /\ UNCHANGED spaVars
  /\ rq \in Requests
  /\ rq.pc = "redirect"
  /\ res' = Answer(302, "logout_redirect", NoTokens,
                   [NoLocation EXCEPT !.url = KAUTH_LOGOUT_URL])
  /\ reqs' = Remove(rq)
  /\ UNCHANGED <<session, req, nLogin>>

\* `await fetch(...)`: the running handler is suspended until its provider
\* call settles, and the event loop is free for other requests.
Await ==
  /\ UNCHANGED spaVars
  /\ req # NoRequest
  /\ res = NoAnswer
  /\ \A rq \in Requests : rq.pc \notin {"destroy", "redirect"}
  /\ req' = NoRequest
  /\ UNCHANGED <<session, reqs, res, nLogin>>

\* The response has gone out; the request-response cycle is over.
End ==
  /\ UNCHANGED spaVars
  /\ res # NoAnswer
  /\ res' = NoAnswer
  /\ req' = NoRequest
  /\ UNCHANGED <<session, reqs, nLogin>>

Next ==
  \/ Home
  \/ Login
  \/ \E q \in CallbackQueries : Callback(q)
  \/ \E rq \in Requests, resp \in Settlements : CallbackResume(rq, resp)
  \/ Refresh
  \/ \E rq \in Requests, resp \in Settlements : RefreshResume(rq, resp)
  \/ Logout
  \/ \E rq \in Requests, resp \in Settlements : LogoutResume(rq, resp)
  \/ \E rq \in Requests : LogoutDestroy(rq)
  \/ \E rq \in Requests : LogoutRedirect(rq)
  \/ Await
  \/ End

Spec == Init /\ [][Next]_vars

(***************************************************************************)
(* Fairness.  Node's fetch settles every call: the transport's default     *)
(* timeouts turn a provider that never answers into a rejection.  The      *)
(* event loop runs the continuation of every settled call, and runs a      *)
(* synchronous segment to its end (to the next await or to the response).  *)
(***************************************************************************)
FairSpec ==
  /\ Spec
  /\ SF_vars(\E rq \in Requests, resp \in Settlements : LogoutResume(rq, resp))
  /\ WF_vars(\E rq \in Requests : LogoutDestroy(rq))
  /\ WF_vars(\E rq \in Requests : LogoutRedirect(rq))
  /\ WF_vars(Await)
  /\ WF_vars(End)

(* ------------------ single-page application: actions ------------------- *)
\* Mutant: the exchange goes on without a verifier.
MissingVerifier_Never(storage) == FALSE

\* exchangeCodeForToken: if (!codeVerifier)
MissingVerifier(storage) == ~Given(storage.pkce_verifier)

\* Mutant: response.ok is not looked at.
SpaExchangeOutcome_NoOkCheck(resp) ==
  IF resp.settled = "rejected" THEN "throw"
  ELSE IF ~resp.json THEN "throw" ELSE "ok"

\* The path exchangeCodeForToken takes after `await fetch(...)` and
\* `await response.json()`: a rejection, a body that does not parse and a
\* response that is not ok all throw into the catch block.
SpaExchangeOutcome(resp) ==
  IF resp.settled = "rejected" THEN "throw"
  ELSE IF ~resp.json THEN "throw"
  ELSE IF ~resp.ok THEN "throw" ELSE "ok"

\* Mutant: the verifier is left in session storage.
StoreTokens_KeepVerifier(storage, data) ==
  [storage EXCEPT !.kauth_tokens = JSONstringify(data)]

\* sessionStorage.setItem("kauth_tokens", JSON.stringify(data.data));
\* sessionStorage.removeItem("pkce_verifier")
StoreTokens(storage, data) ==
  [storage EXCEPT !.kauth_tokens = JSONstringify(data),
                  !.pkce_verifier = Null]

\* window.history.replaceState({}, document.title, window.location.pathname)
replaceState(loc) == [loc EXCEPT !.code = Null, !.error = Null]

\* function renderDashboard(tokens)
renderDashboard(tokens) == Page("dashboard", tokens)

\* async function exchangeCodeForToken(code), up to `await fetch(...)`;
\* init has written the "exchanging" page before the call.
exchangeCodeForToken(code) ==
  /\ UNCHANGED sessionStorage
  /\ IF MissingVerifier(sessionStorage)
     THEN /\ appDiv' = Page("flow_interrupted", NoTokens)
          /\ tasks' = EmptyBag
     ELSE /\ appDiv' = Page("exchanging", NoTokens)
          /\ tasks' = SetToBag({Task("exchangeCodeForToken", code,
                                     sessionStorage.pkce_verifier)})

\* The page is loaded with the query q (first visit, reload, return from
\* the provider) and runs init(); what the page before had suspended is
\* gone with it, session storage stays.
init(q) ==
  /\ UNCHANGED serverVars
  /\ location' = [code |-> q.code, error |-> q.error, href |-> NoHref]
  /\ IF Given(q.error)
     THEN /\ appDiv' = Page("error", NoTokens)
          /\ tasks' = EmptyBag
          /\ UNCHANGED sessionStorage
     ELSE IF Given(q.code)
     THEN exchangeCodeForToken(q.code)
     ELSE IF Given(sessionStorage.kauth_tokens)
     THEN /\ appDiv' = IF JSONparses(sessionStorage.kauth_tokens)
                       THEN renderDashboard(
                              JSONparse(sessionStorage.kauth_tokens))
                       ELSE NoPage
          /\ tasks' = EmptyBag
          /\ UNCHANGED sessionStorage
     ELSE /\ appDiv' = Page("login", NoTokens)
          /\ tasks' = EmptyBag
          /\ UNCHANGED sessionStorage

\* async function login(), a click on loginBtn, up to
\* `await generateCodeChallenge(codeVerifier)`; array is what
\* getRandomValues wrote.
login(array) ==
  /\ UNCHANGED serverVars
  /\ appDiv.kind \in {"error", "login"}
  /\ BagCardinality(tasks) < MaxSuspended
  /\ LET codeVerifier == RandomStrings[array]
     IN /\ sessionStorage' =
             [sessionStorage EXCEPT !.pkce_verifier = codeVerifier]
        /\ tasks' = tasks (+) SetToBag({Task("login", Null, codeVerifier)})
  /\ UNCHANGED <<location, appDiv>>

\* async function login(), from the digest on:
\* window.location.href = authUrl.toString()
loginResume(t) ==
  /\ UNCHANGED serverVars
  /\ t \in BagToSet(tasks)
  /\ t.fn = "login"
  /\ location' =
       [location EXCEPT !.href =
          [url |-> SPA_KAUTH_FRONTEND_URL,
           code_challenge |-> CodeChallenges[t.codeVerifier]]]
  /\ tasks' = tasks (-) SetToBag({t})
  /\ UNCHANGED <<sessionStorage, appDiv>>

\* async function exchangeCodeForToken(code), from the settlement of the
\* token call on
exchangeCodeForTokenResume(t, resp) ==
  /\ UNCHANGED serverVars
  /\ t \in BagToSet(tasks)
  /\ t.fn = "exchangeCodeForToken"
  /\ tasks' = tasks (-) SetToBag({t})
  /\ IF SpaExchangeOutcome(resp) = "ok"
     THEN /\ sessionStorage' = StoreTokens(sessionStorage, resp.data)
          /\ location' = replaceState(location)
          /\ appDiv' = renderDashboard(resp.data)
     ELSE /\ appDiv' = Page("token_error", NoTokens)
          /\ UNCHANGED <<sessionStorage, location>>

\* The click handler of logoutBtn
logoutClick ==
  /\ UNCHANGED serverVars
  /\ appDiv.kind = "dashboard"
  /\ sessionStorage' = [sessionStorage EXCEPT !.kauth_tokens = Null]
  /\ location' = [location EXCEPT !.href =
                    [url |-> SPA_KAUTH_LOGOUT_URL, code_challenge |-> Null]]
  /\ UNCHANGED <<appDiv, tasks>>

SpaNext ==
  \/ \E q \in SpaQueries : init(q)
  \/ \E array \in RandomArrays : login(array)
  \/ \E t \in BagToSet(tasks) : loginResume(t)
  \/ \E t \in BagToSet(tasks), resp \in Settlements :
       exchangeCodeForTokenResume(t, resp)
  \/ logoutClick

\* The single-page application alone.
SpaSpec == Init /\ [][SpaNext]_vars

\* Either program: a run is a run of the server or a run of the
\* single-page application.
ServerIdle == serverVars = <<NoSession, EmptyBag, NoRequest, NoAnswer, 0>>
SpaIdle ==
  /\ sessionStorage = [pkce_verifier |-> Null, kauth_tokens |-> Null]
  /\ location = [code |-> Null, error |-> Null, href |-> NoHref]
  /\ appDiv = NoPage
  /\ tasks = EmptyBag
ProgramsNext == (SpaIdle /\ Next) \/ (ServerIdle /\ SpaNext)
ProgramsSpec == Init /\ [][ProgramsNext]_vars

(* ------------------------------ claims --------------------------------- *)
\* The session holds a refresh token: a token set with that property.
HoldsRefreshToken(sess) == "refreshToken" \in DOMAIN sess.tokens

\* The data of a session: tokens, codeVerifier, state.
SessionData(sess) == <<sess.tokens, sess.codeVerifier, sess.state>>

\* A step in which a handler started the provider call `url`.
Called(url) ==
  \E rq \in BagToSet(reqs') :
    reqs' = Add(rq) /\ rq.call.url = url /\ rq.settled = "pending"

\* C1: a GET /callback whose `state` parameter is not equal to the state
\* stored in the session makes no call to the token endpoint (no call is
\* started, the request is answered with an error), whatever its `code`
\* and in every reachable state of the session.
C1_MismatchedStateNoTokenCall ==
  [][\A q \in CallbackQueries :
       (Callback(q) /\ q.state # session.state)
         => (reqs' = reqs /\ res'.status = 400)]_vars

\* C1 witness: after a login, a callback with state=WRONG and a code was
\* answered "state invalid" and no call is under way.
C1_Witness ==
  /\ res.kind = "state_invalid"
  /\ req.query.state = "WRONG" /\ req.query.code = "abc123"
  /\ session.state = StateToken(1)
  /\ reqs = EmptyBag

\* C2 (as claimed): every call to the token endpoint is started by a
\* callback whose `state` equals a state token that a GET /login of the
\* session generated and stored; in a session that holds no stored state no
\* callback proceeds to the token exchange.
C2_TokenCallOnlyWithLoginState ==
  [][\A q \in CallbackQueries :
       (Callback(q) /\ Called(KAUTH_BACKEND_URL))
         => /\ nLogin >= 1
            /\ session.state \in {StateToken(n) : n \in 1..nLogin}
            /\ q.state = session.state]_vars

\* A settlement that is a failure: the call was rejected (transport
\* failure, timeout) or answered with a status that is not a success.
Failure(resp) == resp.settled = "rejected" \/ ~resp.ok

\* A settlement that is a success: a 2xx response with a JSON body.
Success(resp) == resp.settled = "resolved" /\ resp.ok /\ resp.json

\* C3: no step of a GET /callback whose token exchange fails changes the
\* session's token set: the step that passes the guards and starts the call
\* leaves it as it is, and so does the step that handles a non-success
\* response or a rejection, which answers with an error.
C3_FailedExchangeKeepsTokens ==
  [][/\ \A q \in CallbackQueries :
          Callback(q) => session'.tokens = session.tokens
     /\ \A rq \in Requests, resp \in Settlements :
          (CallbackResume(rq, resp) /\ Failure(resp))
            => /\ session'.tokens = session.tokens
               /\ res'.kind \in {"token_error", "internal_error"}]_vars

\* C3 witness: a callback that matched the stored state was answered with
\* the provider's error, and the session still holds its earlier token set.
C3_Witness ==
  /\ req.route = "/callback" /\ res.kind = "token_error"
  /\ req.query.state = StateToken(2)
  /\ session.tokens = [accessToken |-> "at1", refreshToken |-> "rt1"]

\* C4: when the token exchange of a GET /callback succeeds, the session
\* holds exactly the `data` of the provider's response as its token set and
\* holds neither a codeVerifier nor a state; the browser is sent to "/".
C4_SuccessfulExchangeStoresTokens ==
  [][\A rq \in Requests, resp \in Settlements :
       (CallbackResume(rq, resp) /\ Success(resp))
         => /\ session'.live
            /\ session'.tokens = resp.data
            /\ session'.codeVerifier = Undefined
            /\ session'.state = Undefined
            /\ res'.kind = "authenticated"]_vars

\* C4 witness: login, then a callback with code=abc123 and the state of
\* that login, answered by the provider with {accessToken: at1,
\* refreshToken: rt1}: the session holds that token set, no verifier and no
\* state.
C4_Witness ==
  /\ nLogin = 1
  /\ res.kind = "authenticated"
  /\ req.query.code = "abc123" /\ req.query.state = StateToken(1)
  /\ session.tokens = [accessToken |-> "at1", refreshToken |-> "rt1"]
  /\ session.codeVerifier = Undefined /\ session.state = Undefined

\* C5: a GET /refresh on a session without a token set, or with a token set
\* that has no refresh token, starts no provider call, is answered with 401
\* and leaves the session's data as they are.
C5_RefreshWithoutTokenRejected ==
  [][(Refresh /\ ~HoldsRefreshToken(session))
       => /\ reqs' = reqs
          /\ res'.status = 401 /\ req'.route = "/refresh"
          /\ SessionData(session') = SessionData(session)]_vars

\* C5 witness: the session holds a token set without a refresh token and a
\* refresh was answered with 401, no call under way.
C5_Witness ==
  /\ req.route = "/refresh" /\ res.status = 401
  /\ session.tokens = [accessToken |-> "at3"]
  /\ reqs = EmptyBag

\* A logout is under way and has not yet destroyed the session.
LogoutUnderWay == \E rq \in Requests : rq.pc \in {"revoke", "destroy"}

\* A logout has just destroyed the session: nothing of it is left.
LogoutDestroyed ==
  /\ \E rq \in Requests : rq.pc = "redirect"
  /\ session = NoSession

\* C6: whenever a GET /logout is under way, whatever the session holds and
\* however the revoke call settles (a response of any status, a transport
\* failure, a timeout), the session is eventually destroyed and its token
\* set is gone.
C6_LogoutAlwaysDestroysSession == LogoutUnderWay ~> LogoutDestroyed

\* C6 witness: the revoke call of a logout timed out, and the session has
\* been destroyed all the same.
C6_Witness ==
  \E rq \in Requests :
    /\ rq.pc = "redirect" /\ rq.settled = "timeout"
    /\ rq.call.url = KAUTH_REVOKE_URL
    /\ ~session.live /\ session.tokens = NoTokens

\* C7: the step of a GET /refresh that handles a failed provider call (a
\* non-success response or a rejection) leaves the session's token set
\* identical: same fields, same values.
C7_FailedRefreshKeepsTokens ==
  [][\A rq \in Requests, resp \in Settlements :
       (RefreshResume(rq, resp) /\ Failure(resp))
         => /\ session'.tokens = session.tokens
            /\ res'.kind \in {"refresh_error", "internal_error"}]_vars

\* C7 witness: a refresh was answered with the provider's error and the
\* session holds its three-field token set.
C7_Witness ==
  /\ req.route = "/refresh" /\ res.kind = "refresh_error"
  /\ session.tokens =
       [accessToken |-> "at2", refreshToken |-> "rt2", expiresIn |-> "3600"]

\* C8: a GET /refresh transmits the refresh token the session holds when
\* the request starts, and when the call succeeds the session's token set
\* is exactly the `data` of the response, with nothing of the previous
\* token set carried over.
C8_RefreshReplacesTokenSet ==
  [][/\ (Refresh /\ reqs' # reqs)
          => \E rq \in BagToSet(reqs') :
               /\ reqs' = Add(rq)
               /\ rq.call.url = KAUTH_REFRESH_URL
               /\ HoldsRefreshToken(session)
               /\ rq.call.refreshToken = Get(session.tokens, "refreshToken")
     /\ \A rq \in Requests, resp \in Settlements :
          (RefreshResume(rq, resp) /\ Success(resp))
            => /\ session'.tokens = resp.data
               /\ res'.kind = "refresh_ok"]_vars

\* C8 witness: a refresh that transmitted rt2 (of the three-field token
\* set) succeeded and the session holds the two-field token set returned.
C8_Witness ==
  /\ req.route = "/refresh" /\ res.kind = "refresh_ok"
  /\ res.shown = [accessToken |-> "at1", refreshToken |-> "rt1"]
  /\ session.tokens = [accessToken |-> "at1", refreshToken |-> "rt1"]

\* C9: a GET /logout starts the revoke call if and only if the session
\* holds a refresh token; the session is destroyed only by a logout whose
\* revoke call, if it made one, has settled (fulfilled or rejected); and the
\* redirect to the provider's logout endpoint is issued only by a logout
\* that has destroyed the session, when the session no longer exists.
C9_LogoutRevokeDestroyRedirect ==
  [][/\ Logout => (Called(KAUTH_REVOKE_URL) <=> HoldsRefreshToken(session))
     /\ (session.live /\ ~session'.live)
          => \E rq \in Requests :
               /\ LogoutDestroy(rq)
               /\ rq.settled # "pending"
               /\ (rq.settled = "none" <=> rq.call = NoCall)
     /\ (res' # res /\ res'.kind = "logout_redirect")
          => /\ ~session.live /\ ~session'.live
             /\ res'.location.url = KAUTH_LOGOUT_URL
             /\ \E rq \in Requests : rq.pc = "redirect" /\ reqs' = Remove(rq)
    ]_vars

\* C9 witness: a logout whose revoke call was answered is about to
\* redirect, and the session does not exist any more.
C9_Witness ==
  \E rq \in Requests :
    /\ rq.pc = "redirect" /\ rq.settled = "resolved"
    /\ rq.call.url = KAUTH_REVOKE_URL /\ rq.call.refreshToken = "rt1"
    /\ ~session.live

\* C10 (as claimed, in the case it stresses): a GET /callback that carries
\* an `error` parameter, together with a code and a state that matches the
\* stored one, makes no call to the token endpoint and changes nothing in
\* the session.
C10_ErrorParameterStopsCallback ==
  [][\A q \in CallbackQueries :
       (/\ Callback(q)
        /\ q.error # Undefined
        /\ q.code # Undefined
        /\ q.state = session.state /\ session.state # Undefined)
         => /\ reqs' = reqs
            /\ SessionData(session') = SessionData(session)]_vars

\* C10 (amended): a GET /callback that carries a non-empty `error`
\* parameter makes no call to the token endpoint, changes nothing in the
\* session (tokens, codeVerifier, state) and is answered with the error
\* page (400), also when it carries a code and a state that matches the
\* session.
C10_NonEmptyErrorStopsCallback ==
  [][\A q \in CallbackQueries :
       (Callback(q) /\ q.error \notin {Undefined, ""})
         => /\ reqs' = reqs
            /\ SessionData(session') = SessionData(session)
            /\ res'.kind = "provider_error" /\ res'.status = 400]_vars

\* C10 witness: after a login, a callback with error=access_denied, a code
\* and the stored state was answered with the error page; the session still
\* holds the verifier and the state, and no call is under way.
C10_Witness ==
  /\ res.kind = "provider_error"
  /\ req.query.error = "access_denied" /\ req.query.code = "abc123"
  /\ req.query.state = StateToken(1) /\ session.state = StateToken(1)
  /\ session.codeVerifier = Verifier(1)
  /\ reqs = EmptyBag

\* The token fields of a token set that a response body shows.
TokensShown(answer) ==
  {f \in {"accessToken", "refreshToken"} : f \in DOMAIN answer.shown}

\* C11 (as claimed): no response of a backend route to the browser contains
\* the access token or the refresh token of the session.
C11_NoResponseShowsTokens == TokensShown(res) = {}

\* The bytes of a random array that the verifier made of it depends on:
\* the positions at which another byte gives another string.
BytesRead ==
  [array \in RandomArrays |->
     {k \in 1..Len(array) :
        \E b \in Bytes :
          generateRandomString([array EXCEPT ![k] = b])
            # generateRandomString(array)}]

\* crypto.randomBytes(32): the random bytes a verifier is to carry.
VerifierBytes == 32

\* C12 (as claimed, single-page application): the verifier that login()
\* stores is exactly 43 characters long and is a function of at least 32 of
\* the bytes drawn from the random source.
C12_VerifierCarriesRandomBytes ==
  [][\A array \in RandomArrays :
       login(array)
         => /\ Len(sessionStorage'.pkce_verifier) = VerifierLength
            /\ Cardinality(BytesRead[array]) >= VerifierBytes]_vars

\* A string without "=" padding and without the characters "+" and "/".
UrlSafe(s) == \A i \in 1..Len(s) : Char(s, i) \notin {"=", "+", "/"}

\* What the backend computes for the verifiers of the single-page
\* application, and the challenges of either program that are UrlSafe
\* (both computed once).
BackendChallenges ==
  [codeVerifier \in DOMAIN CodeChallenges |->
     digestBase64Url(SHA256(codeVerifier))]
UrlSafeChallenges ==
  {c \in {CodeChallenges[v] : v \in DOMAIN CodeChallenges}
           \cup {BackendChallenges[v] : v \in DOMAIN CodeChallenges} :
     UrlSafe(c)}

\* C13: the challenge login() of the single-page application puts in the
\* redirect is a function of the verifier alone, is the challenge the
\* backend computes for the same verifier (the unpadded base64url of the
\* digest), and has no "=", "+" or "/"; the challenge in the backend's
\* redirect is the unpadded base64url of the digest of the stored verifier
\* and has none of these characters either.
C13_ChallengeIsBase64UrlOfDigest ==
  [][/\ \A t \in BagToSet(tasks) :
          loginResume(t)
            => /\ location'.href.code_challenge
                    = BackendChallenges[t.codeVerifier]
               /\ location'.href.code_challenge \in UrlSafeChallenges
     /\ Login
          => /\ res'.location.code_challenge
                  = digestBase64Url(SHA256(session'.codeVerifier))
             /\ UrlSafe(res'.location.code_challenge)]_vars

\* C13 witness: the redirect of a login whose verifier has a digest with
\* "/" and "+" in its base64 ("...Q/Crd...0+1C...=") carries the challenge
\* with "_" and "-" in their places and without the padding.
C13_Witness ==
  /\ location.href.url = SPA_KAUTH_FRONTEND_URL
  /\ sessionStorage.pkce_verifier
       = "0000000000000000000000000000000000000000000"
  /\ location.href.code_challenge
       = "sIt0a3CDpNMQW7QbkBOkQ_CrdEswIyQzUHu0-1CzJKM"

\* C14: a page load of the single-page application with a code in the URL
\* (and no error) while session storage holds no pkce_verifier ends with
\* the flow-interrupted page: no call to the token endpoint is started,
\* session storage is as it was (kauth_tokens included) and the URL keeps
\* its query.
C14_MissingVerifierStopsExchange ==
  [][\A q \in SpaQueries :
       (/\ init(q)
        /\ ~Given(q.error) /\ Given(q.code)
        /\ sessionStorage.pkce_verifier = Null)
         => /\ appDiv'.kind = "flow_interrupted"
            /\ tasks' = EmptyBag
            /\ sessionStorage' = sessionStorage
            /\ location'.code = q.code
            /\ location'.href = NoHref]_vars

\* C14 witness: the page was loaded with ?code=abc123 when session storage
\* held a token set and no verifier; it shows the flow-interrupted page, no
\* call is under way and the token set is still stored.
C14_Witness ==
  /\ appDiv.kind = "flow_interrupted"
  /\ location.code = "abc123"
  /\ tasks = EmptyBag
  /\ sessionStorage =
       [pkce_verifier |-> Null,
        kauth_tokens |->
          JSONstringify([accessToken |-> "at1", refreshToken |-> "rt1"])]

\* C15: the step of the single-page application that handles a successful
\* token exchange stores the returned token set under kauth_tokens, removes
\* pkce_verifier and takes the code out of the URL without leaving the
\* page; the step that handles a failed exchange leaves the URL and session
\* storage as they are; and nothing but a successful exchange (or the load
\* of another URL) takes the code out of the URL.
C15_SuccessfulExchangeStoresAndStrips ==
  [][/\ \A t \in BagToSet(tasks), resp \in Settlements :
          exchangeCodeForTokenResume(t, resp)
            => IF Success(resp)
               THEN /\ sessionStorage'.kauth_tokens = JSONstringify(resp.data)
                    /\ sessionStorage'.pkce_verifier = Null
                    /\ location'.code = Null
                    /\ location'.href = location.href
                    /\ appDiv' = Page("dashboard", resp.data)
               ELSE /\ location' = location
                    /\ sessionStorage' = sessionStorage
                    /\ appDiv'.kind = "token_error"
     /\ (location.code # Null /\ location'.code = Null)
          => \/ \E q \in SpaQueries : init(q)
             \/ \E t \in BagToSet(tasks), resp \in Settlements :
                  exchangeCodeForTokenResume(t, resp) /\ Success(resp)
    ]_vars

\* C15 witness: after a successful exchange the dashboard shows the
\* three-field token set, session storage holds its JSON text and no
\* verifier, the URL has no code and nothing was assigned to location.href.
C15_Witness ==
  /\ appDiv =
       Page("dashboard",
            [accessToken |-> "at2", refreshToken |-> "rt2",
             expiresIn |-> "3600"])
  /\ sessionStorage.kauth_tokens =
       "{\"accessToken\":\"at2\",\"refreshToken\":\"rt2\",\"expiresIn\":\"3600\"}"
  /\ sessionStorage.pkce_verifier = Null
  /\ location = [code |-> Null, error |-> Null, href |-> NoHref]

\* C16 (as claimed): the step of GET /callback or GET /refresh that handles
\* a response of the provider that is not a success answers with the
\* provider's status and error body, never with the generic internal error.
C16_ProviderErrorsSurfacedVerbatim ==
  [][\A rq \in Requests, resp \in Settlements :
       (/\ CallbackResume(rq, resp) \/ RefreshResume(rq, resp)
        /\ resp.settled = "resolved" /\ ~resp.ok)
         => /\ res'.status = resp.status
            /\ res'.kind \in {"token_error", "refresh_error"}]_vars

\* The provider calls under way: of the server's handlers, and of the
\* single-page application.
PendingCalls(bag) ==
  LET waiting == {rq \in BagToSet(bag) : rq.settled = "pending"}
  IN BagCardinality([rq \in waiting |-> bag[rq]])
ExchangeCalls(bag) ==
  LET waiting == {t \in BagToSet(bag) : t.fn = "exchangeCodeForToken"}
  IN BagCardinality([t \in waiting |-> bag[t]])

\* C17: nothing is retried.  The step in which a request of /callback,
\* /refresh or /logout arrives starts at most one provider call; every step
\* that handles the settlement of a call, whatever the settlement, ends that
\* call and starts none; the steps of / and /login and the rest of /logout
\* start none.  In the single-page application a page load starts at most
\* one call (exchangeCodeForToken), the step that handles its settlement
\* ends it and starts none, and login() and the logout click start none.
C17_NothingIsRetried ==
  [][/\ (Home \/ Login) => PendingCalls(reqs') = PendingCalls(reqs)
     /\ ((\E q \in CallbackQueries : Callback(q)) \/ Refresh \/ Logout)
          => PendingCalls(reqs') <= PendingCalls(reqs) + 1
     /\ \A rq \in Requests, resp \in Settlements :
          (\/ CallbackResume(rq, resp)
           \/ RefreshResume(rq, resp)
           \/ LogoutResume(rq, resp))
            => PendingCalls(reqs') = PendingCalls(reqs) - 1
     /\ \A rq \in Requests :
          (LogoutDestroy(rq) \/ LogoutRedirect(rq))
            => PendingCalls(reqs') = PendingCalls(reqs)
     /\ (\E q \in SpaQueries : init(q)) => ExchangeCalls(tasks') <= 1
     /\ \A t \in BagToSet(tasks), resp \in Settlements :
          exchangeCodeForTokenResume(t, resp)
            => ExchangeCalls(tasks') = ExchangeCalls(tasks) - 1
     /\ (\/ \E array \in RandomArrays : login(array)
         \/ \E t \in BagToSet(tasks) : loginResume(t)
         \/ logoutClick)
          => ExchangeCalls(tasks') = ExchangeCalls(tasks)
    ]_vars

\* C17 witness: a /callback whose token call timed out or failed in
\* transport has been answered with the internal error, and no call is
\* under way.
C17_Witness ==
  /\ req.route = "/callback" /\ req.query.code = "abc123"
  /\ res.kind = "internal_error"
  /\ PendingCalls(reqs) = 0

\* `state` and `codeVerifier` of the session are both absent, or the pair
\* that one GET /login generated.
StateAndVerifierPaired ==
  \/ session.state = Undefined /\ session.codeVerifier = Undefined
  \/ \E n \in 1..nLogin :
       session.state = StateToken(n) /\ session.codeVerifier = Verifier(n)

\* C18 (as claimed): `state` and `codeVerifier` are always paired, and every
\* token call a callback starts after the state guard sends the verifier of
\* the GET /login whose authorization redirect carried the callback's
\* `state`.
C18_ExchangeSendsVerifierOfMatchedLogin ==
  [][/\ StateAndVerifierPaired'
     /\ \A q \in CallbackQueries :
          (Callback(q) /\ Called(KAUTH_BACKEND_URL))
            => \E n \in 1..nLogin :
                 /\ q.state = StateToken(n)
                 /\ \E rq \in BagToSet(reqs') :
                      /\ reqs' = Add(rq)
                      /\ rq.call.codeVerifier = Verifier(n)]_vars

\* C19 (as claimed): once GET /logout has destroyed the session, a /refresh
\* or /callback that was waiting for the provider puts no token set into
\* it: a step that handles a settlement while the store does not hold the
\* session leaves the session without a token set.
C19_NoTokensBackAfterLogout ==
  [][\A rq \in Requests, resp \in Settlements :
       (/\ CallbackResume(rq, resp) \/ RefreshResume(rq, resp)
        /\ ~session.live)
         => session'.tokens = NoTokens]_vars

\* C20 (as claimed): whenever login() of the single-page application
\* assigns the authorization URL to window.location.href, its
\* code_challenge is the challenge of the verifier that session storage
\* holds under pkce_verifier in that step.
C20_RedirectCarriesStoredVerifier ==
  [][\A t \in BagToSet(tasks) :
       loginResume(t)
         => /\ sessionStorage.pkce_verifier \in DOMAIN CodeChallenges
            /\ location'.href.code_challenge =
                 CodeChallenges[sessionStorage.pkce_verifier]]_vars

\* C21 (as claimed): once the token exchange of a /callback has succeeded,
\* the same request sent again is stopped by the state guard, because the
\* stored state was discarded: in the session the successful step leaves,
\* the request's `state` is not the stored one, so the replay would start
\* no token call and leave the token set alone.
C21_ReplayAfterSuccessIsRefused ==
  [][\A rq \in Requests, resp \in Settlements :
       (CallbackResume(rq, resp) /\ TokenExchangeOutcome(resp) = "ok")
         => StateMismatch(rq.query, session')]_vars

\* C22: a token exchange of the single-page application that fails (the
\* fetch is rejected, the body does not parse, or the response is not a
\* success) leaves session storage as it was: neither the step that starts
\* the exchange nor the step that handles the failure changes kauth_tokens
\* (a stored value stays, an absent one stays absent), and pkce_verifier
\* is still the verifier the exchange sent.
C22_FailedSpaExchangeKeepsStorage ==
  [][/\ \A q \in SpaQueries :
          (init(q) /\ ~Given(q.error) /\ Given(q.code))
            => sessionStorage' = sessionStorage
     /\ \A t \in BagToSet(tasks), resp \in Settlements :
          (/\ exchangeCodeForTokenResume(t, resp)
           /\ \/ resp.settled = "rejected"
              \/ ~resp.json
              \/ ~resp.ok)
            => /\ sessionStorage'.kauth_tokens = sessionStorage.kauth_tokens
               /\ sessionStorage'.pkce_verifier = t.codeVerifier
               /\ sessionStorage'.pkce_verifier = sessionStorage.pkce_verifier
               /\ Given(sessionStorage'.pkce_verifier)
    ]_vars

\* C22 witness: an exchange has failed on a page whose session storage held
\* a token set from an earlier login; the token set and the verifier are
\* still stored.
C22_Witness ==
  /\ appDiv.kind = "token_error"
  /\ location.code = "abc123"
  /\ sessionStorage.kauth_tokens =
       JSONstringify([accessToken |-> "at1", refreshToken |-> "rt1"])
  /\ Given(sessionStorage.pkce_verifier)
  /\ tasks = EmptyBag

\* C23: the token set of the session changes only in the step that handles
\* a successful token exchange of /callback, in the step that handles a
\* successful /refresh, or in the destroy step of /logout.  GET / and GET
\* /login leave it as it is, and so does every /callback that fails: one
\* stopped by a guard, and one whose token call is rejected or answered
\* with an error or with a body that does not parse.
C23_TokenSetChangesOnlyBySuccessOrLogout ==
  [][/\ (session'.tokens # session.tokens)
          => \/ \E rq \in Requests, resp \in Settlements :
                  /\ CallbackResume(rq, resp) \/ RefreshResume(rq, resp)
                  /\ Success(resp)
             \/ \E rq \in Requests : LogoutDestroy(rq)
     /\ (Home \/ Login) => session'.tokens = session.tokens
     /\ \A q \in CallbackQueries :
          Callback(q) => session'.tokens = session.tokens
     /\ \A rq \in Requests, resp \in Settlements :
          (CallbackResume(rq, resp) /\ ~Success(resp))
            => session'.tokens = session.tokens
    ]_vars

\* C23 witness: a session that holds a token set has gone through a second
\* GET /login, which stored a new state and verifier; the token set is the
\* one it held.
C23_Witness ==
  /\ req.route = "/login" /\ res.kind = "authorize_redirect"
  /\ session.state = StateToken(2)
  /\ session.codeVerifier = Verifier(2)
  /\ session.tokens = [accessToken |-> "at1", refreshToken |-> "rt1"]

\* C24 (as claimed, a parameter counting as present when its value is not
\* empty): init() of the single-page application picks one scenario, in
\* this order.  With an `error` in the URL it shows the error page, starts
\* no call and leaves session storage alone; otherwise with a `code` it
\* goes to the token exchange, also when kauth_tokens is stored, and the
\* call is started exactly when a pkce_verifier is stored; otherwise with
\* kauth_tokens stored it shows the dashboard; otherwise it shows the login
\* page.  A token call is started only with a code, no error and a stored
\* pkce_verifier.
C24_InitPicksScenarioByPriority ==
  [][\A q \in SpaQueries :
       init(q)
         => /\ IF Given(q.error)
               THEN /\ appDiv'.kind = "error"
                    /\ ExchangeCalls(tasks') = 0
                    /\ sessionStorage' = sessionStorage
               ELSE IF Given(q.code)
               THEN /\ appDiv'.kind \in {"exchanging", "flow_interrupted"}
                    /\ ExchangeCalls(tasks') = 1
                         <=> Given(sessionStorage.pkce_verifier)
               ELSE IF Given(sessionStorage.kauth_tokens)
               THEN appDiv'.kind = "dashboard" /\ ExchangeCalls(tasks') = 0
               ELSE appDiv'.kind = "login" /\ ExchangeCalls(tasks') = 0
            /\ ExchangeCalls(tasks') > 0
                 => /\ Given(q.code) /\ ~Given(q.error)
                    /\ Given(sessionStorage.pkce_verifier)]_vars
====
